---- MODULE Spec2Model ----
(***************************************************************************)
(* Model of the factotum-agent-py cookbook: the RichRenderer of            *)
(* rich_ui.py (session timeline, projection, live display) driven by the   *)
(* host loop of factotum.py.                                               *)
(*                                                                         *)
(* Python strings that the code inspects character by character (strip,    *)
(* lower, startswith, "in") are sequences of one-character strings.        *)
(***************************************************************************)
EXTENDS Integers, Sequences, FiniteSets, TLC

VARIABLES
    events,          \* RichRenderer.events: ordered timeline entries
    current_message, \* RichRenderer.current_message: open text accumulator
    thought_buffer,  \* RichRenderer.thought_buffer
    plan_entries,    \* RichRenderer.plan_entries
    tools,           \* RichRenderer.tools: id -> tool record
    live,            \* RichRenderer.live is set (TRUE) or None (FALSE)
    working,         \* RichRenderer.working
    screen,          \* the renderable last handed to the Live display
    console_out,     \* blocks written by stop_live since the prompt was read
    pc,              \* position of main() / the process
    interrupted,     \* "no", or where a KeyboardInterrupt ended main(): "idle" | "live"
    lastOp,          \* the operation that produced this state, with its input
    repeat,          \* the event just handled equals the one handled before it
    nEvents          \* content events delivered since the prompt was read

tl == <<events, current_message, thought_buffer, plan_entries, tools>>
disp == <<live, working, screen, console_out>>
host == <<pc, interrupted>>
hist == <<lastOp, repeat, nEvents>>
vars == <<events, current_message, thought_buffer, plan_entries, tools,
          live, working, screen, console_out, pc, interrupted,
          lastOp, repeat, nEvents>>

----------------------------------------------------------------------------
(* Bounds of the model *)

MaxEvents == 3

----------------------------------------------------------------------------
(* Strings *)

Whitespace == {" ", "\n", "\t"}

RECURSIVE LStrip(_)
LStrip(s) ==
    IF s # <<>> /\ Head(s) \in Whitespace THEN LStrip(Tail(s)) ELSE s

RECURSIVE RStrip(_)
RStrip(s) ==
    IF s # <<>> /\ s[Len(s)] \in Whitespace
    THEN RStrip(SubSeq(s, 1, Len(s) - 1))
    ELSE s

\* str.strip()
Strip(s) == RStrip(LStrip(s))

\* truth value of a Python string
Truthy(s) == s # <<>>

IsPrefix(p, s) == Len(p) <= Len(s) /\ SubSeq(s, 1, Len(p)) = p


Contains(sub, s) ==
    \E i \in 1..(Len(s) - Len(sub) + 1) : SubSeq(s, i, i + Len(sub) - 1) = sub

UpperCase == <<"A","B","C","D","E","F","G","H","I","J","K","L","M",
               "N","O","P","Q","R","S","T","U","V","W","X","Y","Z">>
LowerCase == <<"a","b","c","d","e","f","g","h","i","j","k","l","m",
               "n","o","p","q","r","s","t","u","v","w","x","y","z">>

LowerChar(c) ==
    IF \E i \in DOMAIN UpperCase : UpperCase[i] = c
    THEN LowerCase[CHOOSE i \in DOMAIN UpperCase : UpperCase[i] = c]
    ELSE c

\* str.lower()
Lower(s) == [i \in 1..Len(s) |-> LowerChar(s[i])]

\* the backtick character (written as a token: the lexer rejects it in a string)
BackTick == "BACKTICK"

RECURSIVE LStripTicks(_)
LStripTicks(s) ==
    IF s # <<>> /\ Head(s) = BackTick THEN LStripTicks(Tail(s)) ELSE s

RECURSIVE RStripTicks(_)
RStripTicks(s) ==
    IF s # <<>> /\ s[Len(s)] = BackTick
    THEN RStripTicks(SubSeq(s, 1, Len(s) - 1))
    ELSE s

\* str.strip(BackTick)
StripTicks(s) == RStripTicks(LStripTicks(s))

----------------------------------------------------------------------------
(* Inputs: the content events the agent delivers, drawn from small sets *)

S_a == <<"a">>
S_b == <<"b">>
S_sp == <<" ">>
S_X == <<"X">>
S_write_todos == <<"w","r","i","t","e","_","t","o","d","o","s">>
S_ls == <<"l","s"," ","-","l","a">>

Chunks == {<<>>, S_a, S_sp, S_b}
ContentTypes == {"text", "image"}

ToolIds == {"t1", "t2"}
Statuses == {"pending", "in_progress", "completed", "failed"}
\* tool_call_update may carry any string; "" is the default of a missing status
UpdateStatuses == Statuses \cup {""}
CallStatuses == {"pending", "completed"}

NoInput == <<>>
Announced ==
    { [title |-> S_X, kind |-> "execute", raw_input |-> [command |-> S_ls]],
      [title |-> S_write_todos, kind |-> "other", raw_input |-> NoInput] }

PlanA == [content |-> "A", status |-> "pending"]
PlanB == [content |-> "B", status |-> "in_progress"]
PlanC == [content |-> "C", status |-> "completed"]
Plans == {<<>>, <<PlanA, PlanB>>, <<PlanC>>}

MessageUpdates ==
    { [sessionUpdate |-> "agent_message_chunk", ctype |-> "text", text |-> t] : t \in Chunks }
    \cup { [sessionUpdate |-> "agent_message_chunk", ctype |-> "image", text |-> S_a] }

ThoughtUpdates ==
    { [sessionUpdate |-> "agent_thought_chunk", ctype |-> "text", text |-> t] : t \in {S_a, S_sp} }
    \cup { [sessionUpdate |-> "agent_thought_chunk", ctype |-> "image", text |-> S_a] }

ToolCallUpdates ==
    { [sessionUpdate |-> "tool_call", toolCallId |-> i, title |-> a.title,
       kind |-> a.kind, status |-> s, rawInput |-> a.raw_input] :
         i \in ToolIds, a \in Announced, s \in CallStatuses }

ToolUpdateUpdates ==
    { [sessionUpdate |-> "tool_call_update", toolCallId |-> i, status |-> s] :
         i \in ToolIds, s \in UpdateStatuses }

PlanUpdates == { [sessionUpdate |-> "plan", entries |-> p] : p \in Plans }

IgnoredUpdates == { [sessionUpdate |-> "user_message_chunk"] }

----------------------------------------------------------------------------
(* Presentation: _render_tool, _render_plan, _render *)

S_Tool == <<"T","o","o","l">>
S_todo == <<"t","o","d","o">>
S_TodoWrite == <<"T","o","d","o","W","r","i","t","e">>

\* tool.get(key, default) on self.tools.get(tool_id, {})
ToolField(tls, id, key, default) ==
    IF id \in DOMAIN tls THEN tls[id][key] ELSE default

kind_labels ==
    [read |-> <<"R","e","a","d">>,
     edit |-> <<"W","r","i","t","e">>,
     execute |-> <<"B","a","s","h">>,
     fetch |-> <<"F","e","t","c","h">>,
     search |-> <<"S","e","a","r","c","h">>,
     think |-> <<"T","a","s","k">>,
     switch_mode |-> <<"M","o","d","e">>]

\* raw_input.get(f1) or raw_input.get(f2) or ... or title
RECURSIVE FirstTruthy(_, _, _)
FirstTruthy(raw, fields, title) ==
    IF fields = <<>> THEN title
    ELSE IF Head(fields) \in DOMAIN raw /\ Truthy(raw[Head(fields)])
         THEN raw[Head(fields)]
         ELSE FirstTruthy(raw, Tail(fields), title)

\* variant: fetch probes query before url
get_content_QueryFirst(kind, raw, title) ==
    CASE kind = "fetch"   -> FirstTruthy(raw, <<"query", "url">>, title)
      [] kind = "search"  -> FirstTruthy(raw, <<"query", "pattern", "path", "command">>, title)
      [] kind = "edit"    -> FirstTruthy(raw, <<"file_path", "path">>, title)
      [] kind = "read"    -> FirstTruthy(raw, <<"file_path", "absolute_path", "path">>, title)
      [] kind = "execute" -> FirstTruthy(raw, <<"command">>, title)
      [] OTHER -> FirstTruthy(raw, <<"command", "query", "file_path", "path", "instruction">>, title)

get_content(kind, raw, title) ==
    CASE kind = "fetch"   -> FirstTruthy(raw, <<"url", "query">>, title)
      [] kind = "search"  -> FirstTruthy(raw, <<"query", "pattern", "path", "command">>, title)
      [] kind = "edit"    -> FirstTruthy(raw, <<"file_path", "path">>, title)
      [] kind = "read"    -> FirstTruthy(raw, <<"file_path", "absolute_path", "path">>, title)
      [] kind = "execute" -> FirstTruthy(raw, <<"command">>, title)
      [] OTHER -> FirstTruthy(raw, <<"command", "query", "file_path", "path", "instruction">>, title)

dot_style(status) ==
    IF status \in {"pending", "in_progress"} THEN "tool"
    ELSE IF status = "completed" THEN "success"
    ELSE IF status = "failed" THEN "error"
    ELSE "muted"

\* variant: the substring test is made without lower()
IsTodoTitle_CaseSensitive(title) ==
    title \in {S_write_todos, S_TodoWrite} \/ Contains(S_todo, title)

IsTodoTitle(title) ==
    title \in {S_write_todos, S_TodoWrite} \/ Contains(S_todo, Lower(title))

NoElement == [type |-> "none"]

\* _render_tool: the Text of one tool line, or NoElement for None
RenderTool(tls, id) ==
    LET title == ToolField(tls, id, "title", S_Tool)
        kind == ToolField(tls, id, "kind", "other")
        status == ToolField(tls, id, "status", "pending")
        raw == ToolField(tls, id, "raw_input", NoInput)
        hasLabel == kind \in DOMAIN kind_labels
        content == StripTicks(get_content(kind, raw, title))
    IN IF IsTodoTitle(title) THEN NoElement
       ELSE IF hasLabel
       THEN LET label == kind_labels[kind]
                pre == Lower(label) \o <<" ">>
            IN [type |-> "tool", dot |-> dot_style(status), label |-> label,
                content |-> IF IsPrefix(pre, Lower(content))
                            THEN SubSeq(content, Len(label) + 2, Len(content))
                            ELSE content]
       ELSE [type |-> "tool", dot |-> dot_style(status), label |-> title,
             content |-> content]

PlanIcon(status) ==
    CASE status = "completed" -> "check"
      [] status = "in_progress" -> "arrow"
      [] OTHER -> "circle"

PlanStyle(status) ==
    CASE status = "completed" -> "success"
      [] status = "in_progress" -> "info"
      [] OTHER -> "muted"

\* _render_plan: the lines of the Plan panel (called only for a non-empty plan)
RenderPlan(plan) ==
    [type |-> "plan",
     lines |-> [i \in 1..Len(plan) |->
                  [style |-> PlanStyle(plan[i].status), icon |-> PlanIcon(plan[i].status),
                   content |-> plan[i].content]]]

Blank == [type |-> "blank"]

\* the loop of _render over self.events, from entry i on
RECURSIVE RenderEvents(_, _, _, _)
RenderEvents(evs, tls, i, prev_type) ==
    IF i > Len(evs) THEN <<>>
    ELSE LET ev == evs[i]
             sep == IF prev_type # "None" /\ prev_type # ev.type THEN <<Blank>> ELSE <<>>
             el == IF ev.type = "message"
                   THEN <<[type |-> "markdown", text |-> ev.text]>>
                   ELSE IF RenderTool(tls, ev.id) = NoElement THEN <<>>
                        ELSE <<RenderTool(tls, ev.id)>>
         IN sep \o el \o RenderEvents(evs, tls, i + 1, ev.type)

\* _render: the elements inside the "Factotum" panel
Render(w, plan, evs, tls, cur) ==
    LET spinner == IF w THEN <<[type |-> "spinner"], Blank>> ELSE <<>>
        planEls == IF plan # <<>> THEN <<RenderPlan(plan), Blank>> ELSE <<>>
        prev == IF evs = <<>> THEN "None" ELSE evs[Len(evs)].type
        curEls == IF Truthy(Strip(cur))
                  THEN (IF prev = "tool" THEN <<Blank>> ELSE <<>>)
                       \o <<[type |-> "markdown", text |-> cur]>>
                  ELSE <<>>
        elements == spinner \o planEls \o RenderEvents(evs, tls, 1, "None") \o curEls
    IN IF elements = <<>> THEN <<[type |-> "placeholder"]>> ELSE elements

----------------------------------------------------------------------------
(* RichRenderer: state after construction *)

NoFrame == <<>>

Init ==
    /\ events = <<>>
    /\ current_message = <<>>
    /\ thought_buffer = <<>>
    /\ plan_entries = <<>>
    /\ tools = <<>>
    /\ live = FALSE
    /\ working = FALSE
    /\ screen = NoFrame
    /\ console_out = <<>>
    /\ pc = "input"
    /\ interrupted = "no"
    /\ lastOp = [op |-> "init"]
    /\ repeat = FALSE
    /\ nEvents = 0

\* variant: the test of self.live is left out
refresh_Unguarded ==
    screen' = Render(working', plan_entries', events', tools', current_message')

\* _refresh, called after the handler's assignments
refresh ==
    screen' = IF live
              THEN Render(working', plan_entries', events', tools', current_message')
              ELSE screen

\* variant: the flush of the open text is left out
CommitOpenText_Drop(evs, cur) == evs

\* variant: the open text is tested without strip()
CommitOpenText_Unstripped(evs, cur) ==
    IF Truthy(cur) THEN Append(evs, [type |-> "message", text |-> cur]) ELSE evs

\* the flush at the head of _handle_tool_call
CommitOpenText(evs, cur) ==
    IF Truthy(Strip(cur)) THEN Append(evs, [type |-> "message", text |-> cur]) ELSE evs

ClearOpenText(cur) ==
    IF Truthy(Strip(cur)) THEN <<>> ELSE cur

\* variant: setdefault, the first announcement of an id wins
PutTool_KeepFirst(tls, id, rec) ==
    [i \in DOMAIN tls \cup {id} |-> IF i \in DOMAIN tls THEN tls[i] ELSE rec]

\* variant: the registry is rebuilt around the announced tool
PutTool_Only(tls, id, rec) ==
    [i \in {id} |-> rec]

\* self.tools[tool_id] = {...}
PutTool(tls, id, rec) ==
    [i \in DOMAIN tls \cup {id} |-> IF i = id THEN rec ELSE tls[i]]

\* variant: a re-announced tool is moved to the end of the timeline
AppendToolEntry_Move(evs, tls, id) ==
    Append(SelectSeq(evs, LAMBDA e : e # [type |-> "tool", id |-> id]),
           [type |-> "tool", id |-> id])

\* self.events.append({'type': 'tool', 'id': tool_id})
AppendToolEntry(evs, tls, id) ==
    Append(evs, [type |-> "tool", id |-> id])

\* variant: the membership test is left out, so an unknown id gets a record
SetStatus_Phantom(tls, id, status) ==
    [i \in DOMAIN tls \cup {id} |->
        IF i = id
        THEN [title |-> S_Tool, kind |-> "other", status |-> status, raw_input |-> NoInput]
        ELSE tls[i]]

\* variant: a finished tool keeps its status
SetStatus_KeepTerminal(tls, id, status) ==
    IF id \in DOMAIN tls /\ tls[id].status \notin {"completed", "failed"}
    THEN [tls EXCEPT ![id].status = status]
    ELSE tls

\* if tool_id in self.tools: self.tools[tool_id]['status'] = status
SetStatus(tls, id, status) ==
    IF id \in DOMAIN tls THEN [tls EXCEPT ![id].status = status] ELSE tls

_handle_message(u) ==
    /\ current_message' = IF u.ctype = "text" THEN current_message \o u.text
                          ELSE current_message
    /\ UNCHANGED <<events, thought_buffer, plan_entries, tools, live, working>>
    /\ IF u.ctype = "text" THEN refresh ELSE UNCHANGED screen

\* variant: the thought text is also streamed into the open message
_handle_thought_Inline(u) ==
    /\ thought_buffer' = IF u.ctype = "text" THEN thought_buffer \o u.text
                         ELSE thought_buffer
    /\ current_message' = IF u.ctype = "text" THEN current_message \o u.text
                          ELSE current_message
    /\ UNCHANGED <<events, plan_entries, tools, live, working>>
    /\ refresh

_handle_thought(u) ==
    /\ thought_buffer' = IF u.ctype = "text" THEN thought_buffer \o u.text
                         ELSE thought_buffer
    /\ UNCHANGED <<events, current_message, plan_entries, tools, live, working, screen>>

_handle_tool_call(u) ==
    /\ events' = AppendToolEntry(CommitOpenText(events, current_message), tools, u.toolCallId)
    /\ current_message' = ClearOpenText(current_message)
    /\ tools' = PutTool(tools, u.toolCallId,
                        [title |-> u.title, kind |-> u.kind, status |-> u.status,
                         raw_input |-> u.rawInput])
    /\ UNCHANGED <<thought_buffer, plan_entries, live, working>>
    /\ refresh

\* variant: an update of a known id appends a tool entry, as an announcement does
_handle_tool_update_Reappend(u) ==
    /\ tools' = SetStatus(tools, u.toolCallId, u.status)
    /\ events' = IF u.toolCallId \in DOMAIN tools
                 THEN Append(events, [type |-> "tool", id |-> u.toolCallId])
                 ELSE events
    /\ UNCHANGED <<current_message, thought_buffer, plan_entries, live, working>>
    /\ IF u.toolCallId \in DOMAIN tools THEN refresh ELSE UNCHANGED screen

_handle_tool_update(u) ==
    /\ tools' = SetStatus(tools, u.toolCallId, u.status)
    /\ UNCHANGED <<events, current_message, thought_buffer, plan_entries, live, working>>
    /\ IF u.toolCallId \in DOMAIN tools THEN refresh ELSE UNCHANGED screen

\* variant: the new entries are merged into the plan instead of replacing it
_handle_plan_Merge(u) ==
    /\ plan_entries' = plan_entries \o u.entries
    /\ UNCHANGED <<events, current_message, thought_buffer, tools, live, working>>
    /\ refresh

_handle_plan(u) ==
    /\ plan_entries' = u.entries
    /\ UNCHANGED <<events, current_message, thought_buffer, tools, live, working>>
    /\ refresh

\* the content callback can run while main() is suspended in an await
AwaitPoints == {"run", "outputs"}

Delivered(u) ==
    /\ pc \in AwaitPoints
    /\ nEvents < MaxEvents
    /\ nEvents' = nEvents + 1
    /\ lastOp' = [op |-> "handle_event", update |-> u]
    /\ repeat' = (lastOp = [op |-> "handle_event", update |-> u])
    /\ UNCHANGED <<console_out, pc, interrupted>>

\* handle_event, one action per branch of its dispatch
OnMessage == \E u \in MessageUpdates : Delivered(u) /\ _handle_message(u)
OnThought == \E u \in ThoughtUpdates : Delivered(u) /\ _handle_thought(u)
OnToolCall == \E u \in ToolCallUpdates : Delivered(u) /\ _handle_tool_call(u)
OnToolUpdate == \E u \in ToolUpdateUpdates : Delivered(u) /\ _handle_tool_update(u)
OnPlan == \E u \in PlanUpdates : Delivered(u) /\ _handle_plan(u)
OnIgnored ==
    \E u \in IgnoredUpdates :
        /\ Delivered(u)
        /\ UNCHANGED <<events, current_message, thought_buffer, plan_entries, tools,
                       live, working, screen>>

----------------------------------------------------------------------------
(* RichRenderer: reset, start_live, stop_live *)

\* variant: the thought buffer is not cleared
reset_KeepThoughts ==
    /\ events' = <<>>
    /\ current_message' = <<>>
    /\ plan_entries' = <<>>
    /\ tools' = <<>>
    /\ working' = FALSE
    /\ UNCHANGED <<thought_buffer, live, screen, console_out>>

reset ==
    /\ events' = <<>>
    /\ current_message' = <<>>
    /\ thought_buffer' = <<>>
    /\ plan_entries' = <<>>
    /\ tools' = <<>>
    /\ working' = FALSE
    /\ UNCHANGED <<live, screen, console_out>>

\* Live(self, ...).start() draws the renderer itself, i.e. _render()
start_live ==
    /\ working' = TRUE
    /\ live' = TRUE
    /\ screen' = Render(TRUE, plan_entries, events, tools, current_message)
    /\ UNCHANGED <<tl, console_out>>

\* the final render of stop_live, made only when a Live handle is set
FinalRender(lv) ==
    IF lv THEN <<[type |-> "final"]>> ELSE <<>>

\* variant: the buffer is tested without strip()
ReasoningBlock_Unstripped(thought) ==
    IF Truthy(thought) THEN <<[type |-> "reasoning", text |-> thought]>> ELSE <<>>

\* the Reasoning panel printed after the main panel
ReasoningBlock(thought) ==
    IF Truthy(Strip(thought)) THEN <<[type |-> "reasoning", text |-> thought]>> ELSE <<>>

stop_live ==
    /\ working' = FALSE
    /\ screen' = IF live
                 THEN Render(FALSE, plan_entries, events, tools, current_message)
                 ELSE screen
    /\ live' = FALSE
    /\ console_out' = console_out \o FinalRender(live) \o ReasoningBlock(thought_buffer)
    /\ UNCHANGED tl

----------------------------------------------------------------------------
(* factotum.py: main(), shutdown() and the __main__ guard *)

Step(from, to, op) ==
    /\ pc = from
    /\ pc' = to
    /\ lastOp' = [op |-> op]
    /\ repeat' = FALSE
    /\ UNCHANGED interrupted

\* console.input(...).strip() returned an empty prompt: continue
PromptEmpty ==
    /\ Step("input", "input", "input_empty")
    /\ UNCHANGED <<tl, disp, nEvents>>

\* /quit, /exit, /q
PromptQuit ==
    /\ Step("input", "kill", "input_quit")
    /\ UNCHANGED <<tl, disp, nEvents>>

\* any other prompt opens a turn
PromptTurn ==
    /\ Step("input", "reset", "input_prompt")
    /\ nEvents' = 0
    /\ console_out' = <<>>
    /\ UNCHANGED <<tl, live, working, screen>>

HostReset ==
    /\ Step("reset", "start", "reset")
    /\ reset
    /\ UNCHANGED nEvents

HostStartLive ==
    /\ Step("start", "upload", "start_live")
    /\ start_live
    /\ UNCHANGED nEvents

\* the input files are read and, if any, uploaded
HostUpload ==
    /\ Step("upload", "run", "upload_context")
    /\ UNCHANGED <<tl, disp, nEvents>>

\* await agent.run(prompt=prompt) resolves
RunResolves ==
    /\ Step("run", "stop", "run_resolved")
    /\ UNCHANGED <<tl, disp, nEvents>>

\* variant: agent.run(...) is not awaited before stop_live()
HostStopLive_NoAwait ==
    /\ Step("run", "outputs", "stop_live")
    /\ stop_live
    /\ UNCHANGED nEvents

HostStopLive ==
    /\ Step("stop", "outputs", "stop_live")
    /\ stop_live
    /\ UNCHANGED nEvents

\* the output files are fetched and saved
HostOutputs ==
    /\ Step("outputs", "input", "get_output_files")
    /\ UNCHANGED <<tl, disp, nEvents>>

\* await agent.kill(); Goodbye; break
HostKill ==
    /\ Step("kill", "done", "kill")
    /\ UNCHANGED <<tl, disp, nEvents>>

\* KeyboardInterrupt leaves asyncio.run(main()) wherever main() is
KeyboardInterrupt ==
    /\ pc \in {"input", "reset", "start", "upload", "run", "stop", "outputs", "kill"}
    /\ pc' = "shutdown"
    /\ interrupted' = IF live THEN "live" ELSE "idle"
    /\ lastOp' = [op |-> "KeyboardInterrupt"]
    /\ repeat' = FALSE
    /\ UNCHANGED <<tl, disp, nEvents>>

\* except KeyboardInterrupt: asyncio.run(shutdown())
shutdown ==
    /\ Step("shutdown", "done", "shutdown")
    /\ UNCHANGED <<tl, disp, nEvents>>

\* the display backend raises inside start_live (live.start()), after working
\* and live were assigned; main() has no handler, so the exception leaves
\* asyncio.run(main()) and, not being a KeyboardInterrupt, ends the process
StartLiveFails ==
    /\ pc = "start"
    /\ pc' = "crashed"
    /\ working' = TRUE
    /\ live' = TRUE
    /\ lastOp' = [op |-> "display_failed", in |-> "start_live"]
    /\ repeat' = FALSE
    /\ UNCHANGED <<tl, screen, console_out, interrupted, nEvents>>

\* the display backend raises inside stop_live (live.update / live.stop), after
\* working was cleared: the handle stays set and no Reasoning panel is printed
StopLiveFails ==
    /\ pc = "stop"
    /\ live
    /\ pc' = "crashed"
    /\ working' = FALSE
    /\ lastOp' = [op |-> "display_failed", in |-> "stop_live"]
    /\ repeat' = FALSE
    /\ UNCHANGED <<tl, live, screen, console_out, interrupted, nEvents>>

Next ==
    \/ OnMessage
    \/ OnThought
    \/ OnToolCall
    \/ OnToolUpdate
    \/ OnPlan
    \/ OnIgnored
    \/ PromptEmpty
    \/ PromptQuit
    \/ PromptTurn
    \/ HostReset
    \/ HostStartLive
    \/ HostUpload
    \/ RunResolves
    \/ HostStopLive
    \/ HostOutputs
    \/ HostKill
    \/ KeyboardInterrupt
    \/ shutdown
    \/ StartLiveFails
    \/ StopLiveFails

Spec == Init /\ [][Next]_vars

TypeOK ==
    /\ live \in BOOLEAN
    /\ working \in BOOLEAN
    /\ nEvents \in 0..MaxEvents
    /\ DOMAIN tools \subseteq ToolIds

----------------------------------------------------------------------------
(* Properties *)

IsEvent(o, kind) == o.op = "handle_event" /\ o.update.sessionUpdate = kind

ToolEntry(id) == [type |-> "tool", id |-> id]
MessageEntry(text) == [type |-> "message", text |-> text]

EntriesOf(evs, id) == {i \in DOMAIN evs : evs[i] = ToolEntry(id)}

\* C1: the timeline holds exactly one tool-reference entry per tool id of the
\* registry; a tool_call for an id already registered appends no second entry.
C1_NoDuplicateToolEntries ==
    \A id \in DOMAIN tools : Cardinality(EntriesOf(events, id)) = 1

\* C2: a tool_call that finds the open accumulator non-empty after trimming
\* commits it as a message entry immediately before the tool's entry and clears
\* the accumulator; a message chunk only grows the accumulator and adds nothing
\* to the timeline.
C2_OrderingPreservation ==
    [][ /\ (IsEvent(lastOp', "tool_call") /\ Truthy(Strip(current_message)))
           => /\ events' = events \o <<MessageEntry(current_message),
                                       ToolEntry(lastOp'.update.toolCallId)>>
              /\ current_message' = <<>>
        /\ (IsEvent(lastOp', "agent_message_chunk") /\ lastOp'.update.ctype = "text")
           => /\ events' = events
              /\ current_message' = current_message \o lastOp'.update.text
      ]_vars

\* C2 witness: MessageChunk("a"), ToolInvoked(t1), MessageChunk("b") was applied
C2_Witness ==
    /\ IsEvent(lastOp, "agent_message_chunk")
    /\ events = <<MessageEntry(S_a), ToolEntry("t1")>>
    /\ current_message = S_b

\* C3: between two resets every handled event leaves the old timeline a prefix
\* of the new one: no entry is removed, reordered or rewritten.
C3_AppendOnly ==
    [][ lastOp'.op # "reset" => IsPrefix(events, events') ]_vars

\* C3 witness: an event was appended to a timeline that already held entries
C3_Witness ==
    /\ lastOp.op = "handle_event"
    /\ Len(events) >= 3
    /\ \E id \in ToolIds : Cardinality(EntriesOf(events, id)) >= 2

\* C4: a tool_call_update for an id that is not in the registry changes nothing:
\* entries, registry, accumulator, plan, thought buffer and display stay as
\* they were.
C4_UnknownIdSafety ==
    [][ (IsEvent(lastOp', "tool_call_update")
         /\ lastOp'.update.toolCallId \notin DOMAIN tools)
        => UNCHANGED <<tl, disp>> ]_vars

\* C4 witness: an update for an unknown id was handled while another tool exists
C4_Witness ==
    /\ IsEvent(lastOp, "tool_call_update")
    /\ lastOp.update.toolCallId \notin DOMAIN tools
    /\ tools # <<>>
    /\ live

HasFinal(out) == \E i \in DOMAIN out : out[i].type = "final"

\* C5: a host that shut down after an interrupt taken while the display was
\* live has run stop_live: the final render was made and the handle released.
C5_CancellationFlush ==
    (pc = "done" /\ interrupted = "live") => (~live /\ HasFinal(console_out))

\* C6 (as stated): stop_live makes exactly one final render and then emits the
\* thought buffer as a block exactly when the thought buffer is non-empty.
C6_EndAsStated ==
    lastOp.op = "stop_live"
    => console_out = <<[type |-> "final"]>>
                     \o (IF thought_buffer # <<>>
                         THEN <<[type |-> "reasoning", text |-> thought_buffer]>>
                         ELSE <<>>)

\* C6 (amended): stop_live stops the live display, makes exactly one final
\* render of the terminal state with the working flag cleared, and then emits
\* the thought buffer as a block exactly when the thought buffer is non-empty
\* after trimming whitespace.
C6_End ==
    lastOp.op = "stop_live"
    => /\ ~live /\ ~working
       /\ screen = Render(FALSE, plan_entries, events, tools, current_message)
       /\ console_out = <<[type |-> "final"]>>
                        \o (IF Strip(thought_buffer) # <<>>
                            THEN <<[type |-> "reasoning", text |-> thought_buffer]>>
                            ELSE <<>>)

\* C6 witness: stop_live ran with a thought buffer holding text after a tool ran
C6_Witness ==
    /\ lastOp.op = "stop_live"
    /\ Strip(thought_buffer) # <<>>
    /\ Len(console_out) = 2
    /\ events # <<>>

\* C7: right after reset() the entries, the registry, the plan, the open
\* accumulator and the thought buffer are all empty.
C7_ResetIsolation ==
    lastOp.op = "reset"
    => /\ events = <<>>
       /\ tools = <<>>
       /\ plan_entries = <<>>
       /\ current_message = <<>>
       /\ thought_buffer = <<>>

\* C7 witness: reset() ran after a turn that had drawn a plan and a tool
C7_Witness ==
    /\ lastOp.op = "reset"
    /\ \E i \in DOMAIN screen : screen[i].type = "tool"
    /\ \E i \in DOMAIN screen : screen[i].type = "plan"

\* C8: a thought chunk appends its text to the thought buffer and changes
\* nothing else: entries, accumulator, registry, plan and the display, live
\* or not, stay as they were.
C8_ThoughtOnlyBuffers ==
    [][ IsEvent(lastOp', "agent_thought_chunk")
        => /\ thought_buffer' = IF lastOp'.update.ctype = "text"
                                THEN thought_buffer \o lastOp'.update.text
                                ELSE thought_buffer
           /\ UNCHANGED <<events, current_message, tools, plan_entries, disp>>
      ]_vars

\* C8 witness: a thought chunk arrived in the live phase over open text
C8_Witness ==
    /\ IsEvent(lastOp, "agent_thought_chunk")
    /\ live
    /\ Strip(current_message) # <<>>
    /\ Strip(thought_buffer) # <<>>
    /\ events # <<>>

Forward(a, b) ==
    \/ a = b
    \/ a = "pending" /\ b \in {"in_progress", "completed", "failed"}
    \/ a = "in_progress" /\ b \in {"completed", "failed"}

\* C9 (as stated): a tool record's status is one of pending, in_progress,
\* completed, failed and only moves forward along
\* pending -> in_progress -> (completed | failed); a finished record never
\* returns to pending or in_progress.
C9_LifecycleAsStated ==
    [][ \A id \in DOMAIN tools' :
          /\ tools'[id].status \in Statuses
          /\ id \in DOMAIN tools => Forward(tools[id].status, tools'[id].status)
      ]_vars

TouchesTool(o, id) ==
    /\ IsEvent(o, "tool_call") \/ IsEvent(o, "tool_call_update")
    /\ o.update.toolCallId = id

\* C9 (amended): a tool record's status is set only by tool_call and
\* tool_call_update events for its id and is then the status that event
\* carries, whatever its value and whatever the status before; every other
\* step leaves it as it was.
C9_StatusFollowsEvents ==
    [][ \A id \in DOMAIN tools' :
          IF TouchesTool(lastOp', id)
          THEN tools'[id].status = lastOp'.update.status
          ELSE id \in DOMAIN tools /\ tools'[id].status = tools[id].status
      ]_vars

\* C9 witness: an update gave a known tool a status outside the four values
C9_Witness ==
    /\ IsEvent(lastOp, "tool_call_update")
    /\ lastOp.update.toolCallId \in DOMAIN tools
    /\ lastOp.update.status = ""
    /\ tools[lastOp.update.toolCallId].status \notin Statuses

\* C10: handling the same tool_call_update for a known id a second time in a
\* row leaves the state reached by the first: tool records, entries,
\* accumulator, plan, thoughts and display.
C10_IdempotentStatusUpdate ==
    [][ (repeat' /\ IsEvent(lastOp', "tool_call_update")
         /\ lastOp'.update.toolCallId \in DOMAIN tools)
        => UNCHANGED <<tl, disp>> ]_vars

\* C10 witness: the same update of a known id was handled twice in a row
C10_Witness ==
    /\ repeat
    /\ IsEvent(lastOp, "tool_call_update")
    /\ lastOp.update.toolCallId \in DOMAIN tools
    /\ tools[lastOp.update.toolCallId].status = "completed"
    /\ live

\* C11: after a plan event the plan list is exactly the entries of that event,
\* in order, with nothing kept of the plan before; no other content event
\* changes the plan list.
C11_PlanReplacement ==
    [][ lastOp'.op = "handle_event"
        => plan_entries' = IF lastOp'.update.sessionUpdate = "plan"
                           THEN lastOp'.update.entries
                           ELSE plan_entries
      ]_vars

\* C11 witness: PlanUpdated([A, B]) then PlanUpdated([C]) was applied
C11_Witness ==
    /\ repeat = FALSE
    /\ IsEvent(lastOp, "plan")
    /\ plan_entries = <<PlanC>>
    /\ \E i \in DOMAIN screen : screen[i] = RenderPlan(<<PlanC>>)
    /\ nEvents >= 2

\* C12: after a display call failed during a turn the host loop has not
\* terminated: it is back at the prompt, where the next input opens a fresh
\* turn.
C12_DisplayFailureTurnLocal ==
    lastOp.op = "display_failed" => pc = "input"

\* C13: in every turn start_live() follows reset(), stop_live() follows the
\* resolution of the run and nothing else, the run resolves with the display
\* live, and the live handle is set exactly from start_live to stop_live.
C13_TurnProtocol ==
    [][ /\ lastOp'.op = "start_live" => lastOp.op = "reset"
        /\ lastOp'.op = "run_resolved" => live /\ working
        /\ lastOp'.op = "stop_live" => lastOp.op = "run_resolved" /\ live /\ ~live'
        /\ pc' \in {"upload", "run", "stop"} => live'
        /\ pc' \in {"input", "reset", "start", "outputs", "kill"} => ~live'
      ]_vars

\* C13 witness: a turn reached stop_live after events were handled
C13_Witness ==
    /\ lastOp.op = "stop_live"
    /\ pc = "outputs"
    /\ nEvents >= 2
    /\ events # <<>>

\* C14: a tool_call for an id already in the registry leaves that id's record
\* holding the title, kind, status and rawInput of this announcement, and
\* leaves the records of all other ids, and the set of ids, as they were.
C14_ReannouncementUpserts ==
    [][ (IsEvent(lastOp', "tool_call") /\ lastOp'.update.toolCallId \in DOMAIN tools)
        => LET u == lastOp'.update
           IN /\ DOMAIN tools' = DOMAIN tools
              /\ tools'[u.toolCallId] = [title |-> u.title, kind |-> u.kind,
                                         status |-> u.status, raw_input |-> u.rawInput]
              /\ \A j \in DOMAIN tools \ {u.toolCallId} : tools'[j] = tools[j]
      ]_vars

\* C14 witness: t1 was announced again, with another title, next to t2
C14_Witness ==
    /\ IsEvent(lastOp, "tool_call")
    /\ lastOp.update.toolCallId = "t1"
    /\ Cardinality(EntriesOf(events, "t1")) = 2
    /\ "t2" \in DOMAIN tools
    /\ tools["t1"].title = S_write_todos
    /\ tools["t2"].title = S_X

\* C18: every tool entry of the timeline names a key of the registry, and
\* every key of the registry is named by at least one tool entry.
C18_ReferentialIntegrity ==
    /\ \A i \in DOMAIN events :
          events[i].type = "tool" => events[i].id \in DOMAIN tools
    /\ \A id \in DOMAIN tools : EntriesOf(events, id) # {}

\* C18 witness: two tools are registered and an update was just handled
C18_Witness ==
    /\ DOMAIN tools = {"t1", "t2"}
    /\ Len(events) = 2
    /\ IsEvent(lastOp, "tool_call_update")

\* C19: every message entry holds text that is non-empty after trimming and is
\* immediately followed by a tool entry; right after a tool_call the open
\* accumulator is empty or whitespace only.
C19_CommittedTextShape ==
    /\ \A i \in DOMAIN events :
          events[i].type = "message"
          => /\ Strip(events[i].text) # <<>>
             /\ i < Len(events)
             /\ events[i + 1].type = "tool"
    /\ IsEvent(lastOp, "tool_call") => Strip(current_message) = <<>>

\* C19 witness: a tool_call committed open text that ends in whitespace
C19_Witness ==
    /\ IsEvent(lastOp, "tool_call")
    /\ current_message = <<>>
    /\ events = <<MessageEntry(S_a \o S_sp), ToolEntry("t1")>>

HasSpinner(frame) == \E i \in DOMAIN frame : frame[i].type = "spinner"

\* C20: what start_live and every event handled while the live handle is set
\* leave on the display carries the working indicator, the final render of stop_live does not, and an event handled
\* while no live handle is set changes state without drawing.
C20_WorkingFollowsLive ==
    [][ /\ (lastOp'.op = "start_live" \/ (lastOp'.op = "handle_event" /\ live))
           => HasSpinner(screen') /\ working'
        /\ lastOp'.op = "stop_live" => ~HasSpinner(screen') /\ ~working'
        /\ (lastOp'.op = "handle_event" /\ ~live) => screen' = screen
      ]_vars

\* C20 witness: a tool_call handled after stop_live changed the timeline and
\* left the final frame as it was
C20_Witness ==
    /\ IsEvent(lastOp, "tool_call")
    /\ ~live
    /\ pc = "outputs"
    /\ screen # NoFrame
    /\ ~HasSpinner(screen)
    /\ screen # Render(working, plan_entries, events, tools, current_message)

----------------------------------------------------------------------------
(* Projection of one tool: the renderer in the live phase of a turn receives  *)
(* one announcement drawn from a wide set of titles, kinds and rawInputs,     *)
(* among message chunks and status updates.                                   *)

S_MyTODO == <<"M","y","T","O","D","O">>
S_Read_x == <<"R","e","a","d"," ","x">>
S_url == <<"h","t","t","p",":","/","/","x">>
S_q == <<"q">>
S_pat == <<"*",".","p","y">>
S_path == <<"/","p">>
S_file == <<"/","f">>
S_abs == <<"/","a">>
S_ins == <<"g","o">>
S_ticked == <<BackTick, "l", "s", BackTick>>
S_bash_ls == <<"b","a","s","h"," ","l","s">>

WideTitles == {S_X, <<>>, S_write_todos, S_TodoWrite, S_MyTODO, S_Read_x}

WideKinds == {"fetch", "search", "edit", "read", "execute", "other", "think", "mcp"}

WideInputs ==
    { NoInput,
      [command |-> S_ls],
      [command |-> <<>>, query |-> S_q],
      [command |-> S_ticked],
      [command |-> S_bash_ls],
      [url |-> S_url, query |-> S_q],
      [query |-> S_q, pattern |-> S_pat, path |-> S_path, command |-> S_ls],
      [pattern |-> S_pat, path |-> S_path, command |-> S_ls],
      [file_path |-> S_file, absolute_path |-> S_abs, path |-> S_path],
      [absolute_path |-> S_abs, path |-> S_path],
      [file_path |-> S_Read_x],
      [path |-> S_path, instruction |-> S_ins],
      [instruction |-> S_ins] }

WideToolCalls ==
    { [sessionUpdate |-> "tool_call", toolCallId |-> "t1", title |-> t,
       kind |-> k, status |-> "pending", rawInput |-> r] :
         t \in WideTitles, k \in WideKinds, r \in WideInputs }

\* the state of the first turn once start_live() has run and main() awaits
\* agent.run()
RenderInit ==
    /\ events = <<>>
    /\ current_message = <<>>
    /\ thought_buffer = <<>>
    /\ plan_entries = <<>>
    /\ tools = <<>>
    /\ live = TRUE
    /\ working = TRUE
    /\ screen = Render(TRUE, <<>>, <<>>, <<>>, <<>>)
    /\ console_out = <<>>
    /\ pc = "run"
    /\ interrupted = "no"
    /\ lastOp = [op |-> "upload_context"]
    /\ repeat = FALSE
    /\ nEvents = 0

RenderAnnounce ==
    \E u \in WideToolCalls :
        /\ tools = <<>>
        /\ Delivered(u)
        /\ _handle_tool_call(u)

RenderStatus ==
    \E s \in UpdateStatuses :
        LET u == [sessionUpdate |-> "tool_call_update", toolCallId |-> "t1", status |-> s]
        IN Delivered(u) /\ _handle_tool_update(u)

RenderChunk ==
    LET u == [sessionUpdate |-> "agent_message_chunk", ctype |-> "text", text |-> S_a]
    IN Delivered(u) /\ _handle_message(u)

RenderNext ==
    \/ RenderAnnounce
    \/ RenderStatus
    \/ RenderChunk

RenderSpec == RenderInit /\ [][RenderNext]_vars

ToolElements(frame) == SelectSeq(frame, LAMBDA e : e.type = "tool")

\* the titles of WideTitles that are "write_todos", "TodoWrite" or contain
\* "todo" in any letter case
TodoLike == {S_write_todos, S_TodoWrite, S_MyTODO}

\* C15: a tool whose title is "write_todos" or "TodoWrite", or contains "todo"
\* case-insensitively, has no line in the rendered timeline, whatever its
\* status, kind and rawInput and whatever was handled before or after it.
C15_TodoFiltered ==
    ("t1" \in DOMAIN tools /\ tools["t1"].title \in TodoLike)
    => ToolElements(screen) = <<>>

\* C15 witness: a tool titled with "TODO" in capitals was announced between a
\* message chunk and a status update
C15_Witness ==
    /\ "t1" \in DOMAIN tools
    /\ tools["t1"].title = S_MyTODO
    /\ tools["t1"].status = "completed"
    /\ tools["t1"].raw_input = [command |-> S_ls]
    /\ Len(events) = 2
    /\ Len(screen) > 2

\* the text of a tool id
IdText(id) == IF id = "t1" THEN <<"t","1">> ELSE <<"t","2">>

\* C16: the label drawn for a tool is never the empty string; a tool announced
\* with an empty title is drawn with its id where its title would stand.
C16_EmptyTitleFallback ==
    \A i \in DOMAIN screen :
        screen[i].type = "tool"
        => /\ screen[i].label # <<>>
           /\ (tools["t1"].title = <<>> /\ tools["t1"].kind \notin DOMAIN kind_labels)
              => screen[i].label = IdText("t1")


\* the precedence lists of the label/content table
C17_Precedence(kind) ==
    CASE kind = "fetch"   -> <<"url", "query">>
      [] kind = "search"  -> <<"query", "pattern", "path", "command">>
      [] kind = "edit"    -> <<"file_path", "path">>
      [] kind = "read"    -> <<"file_path", "absolute_path", "path">>
      [] kind = "execute" -> <<"command">>
      [] OTHER -> <<"command", "query", "file_path", "path", "instruction">>

\* the value of the first listed field that is present in raw, else the title
C17_FirstPresent(kind, raw, title) ==
    LET fields == C17_Precedence(kind)
        hits == {i \in DOMAIN fields : fields[i] \in DOMAIN raw}
    IN IF hits = {} THEN title
       ELSE raw[fields[CHOOSE i \in hits : \A j \in hits : i <= j]]

\* the value of the first listed field that is present in raw with a non-empty
\* value, else the title
C17_FirstNonEmpty(kind, raw, title) ==
    LET fields == C17_Precedence(kind)
        hits == {i \in DOMAIN fields :
                    fields[i] \in DOMAIN raw /\ raw[fields[i]] # <<>>}
    IN IF hits = {} THEN title
       ELSE raw[fields[CHOOSE i \in hits : \A j \in hits : i <= j]]

\* a value as it is displayed: surrounding backticks removed, then a leading
\* "<label> " removed (in any letter case) when the kind has a display label
C17_Shown(kind, v) ==
    LET c == StripTicks(v)
    IN IF kind \in DOMAIN kind_labels
          /\ IsPrefix(Lower(kind_labels[kind]) \o <<" ">>, Lower(c))
       THEN SubSeq(c, Len(kind_labels[kind]) + 2, Len(c))
       ELSE c

\* C17 (as stated): the content drawn for a tool is the value of the first
\* field of its kind's precedence list that is present in rawInput, and the
\* title when none of the listed fields is present (drawn with the label
\* formatting: backticks and a repeated label removed).
C17_ExtractionAsStated ==
    \A i \in DOMAIN screen :
        screen[i].type = "tool"
        => screen[i].content =
              C17_Shown(tools["t1"].kind,
                        C17_FirstPresent(tools["t1"].kind, tools["t1"].raw_input,
                                         tools["t1"].title))

\* C17 (amended): the content drawn for a tool is taken from the first field of
\* its kind's precedence list that is present in rawInput with a non-empty
\* value, and from the title when there is none; it is drawn with surrounding
\* backticks removed and without a leading repetition of the kind's label.
C17_Extraction ==
    \A i \in DOMAIN screen :
        screen[i].type = "tool"
        => screen[i].content =
              C17_Shown(tools["t1"].kind,
                        C17_FirstNonEmpty(tools["t1"].kind, tools["t1"].raw_input,
                                          tools["t1"].title))

\* C17 witness: a fetch tool with both url and query is drawn with its url
C17_Witness ==
    /\ "t1" \in DOMAIN tools
    /\ tools["t1"].kind = "fetch"
    /\ tools["t1"].raw_input = [url |-> S_url, query |-> S_q]
    /\ Len(ToolElements(screen)) = 1
    /\ ToolElements(screen)[1].content = S_url
    /\ ToolElements(screen)[1].label = kind_labels["fetch"]

====
